---- MODULE Spec2Model ----
(***************************************************************************)
(* Hand-gesture pipeline of Particle-Testing: HandTracker (landmarks ->    *)
(* tension, gesture, anchors), App (handData state), and ParticleSystem    *)
(* (hand-data effect, render loop publishing the shader uniforms).         *)
(*                                                                         *)
(* Numbers are fixed point: the JavaScript number 1.0 is Unit, for         *)
(* landmark coordinates, distances, tension and explosion energy alike.    *)
(* The JavaScript value NaN is the integer NaN below, which no finite      *)
(* quantity of the model takes; the F* operators give it IEEE semantics.   *)
(***************************************************************************)
EXTENDS Integers, Sequences, FiniteSets, TLC

\* ------------------------------------------------------------ numbers

\* 1.0 in fixed point (tension: 0.0 open .. 1.0 fist; x, y in [0, 1]).
Unit == 10000

\* JavaScript NaN.
NaN == 0 - (Unit * Unit)

IsNaN(a) == a = NaN

FSub(a, b) == IF IsNaN(a) \/ IsNaN(b) THEN NaN ELSE a - b

FAdd(a, b) == IF IsNaN(a) \/ IsNaN(b) THEN NaN ELSE a + b

FAbs(a) == IF IsNaN(a) THEN NaN ELSE IF a < 0 THEN 0 - a ELSE a

\* a > b and a < b of JavaScript: false when either side is NaN.
FGt(a, b) == ~IsNaN(a) /\ ~IsNaN(b) /\ a > b

FLt(a, b) == ~IsNaN(a) /\ ~IsNaN(b) /\ a < b

\* a * (num / den), rounded toward zero.
FMul(a, num, den) ==
  IF IsNaN(a) THEN NaN
  ELSE IF a >= 0 THEN (a * num) \div den
  ELSE 0 - (((0 - a) * num) \div den)

\* Math.sqrt on a non-negative integer: the floor of the root, by Newton's
\* iteration downward from a start x that is not below the root.
RECURSIVE SqrtSearch(_, _)
SqrtSearch(n, x) ==
  LET y == (x + n \div x) \div 2
  IN  IF y >= x THEN x ELSE SqrtSearch(n, y)

\* The largest root a squared distance of the model can have (3 * Unit^2
\* stays under 2^31, so does SqrtBound^2).
SqrtBound == 4 * Unit

Sqrt(n) ==
  IF n = 0 THEN 0
  ELSE SqrtSearch(n, IF n < Unit * 100 THEN Unit \div 10
                     ELSE IF n < Unit * Unit THEN Unit
                     ELSE SqrtBound)

\* ---------------------------------------------------------- landmarks

Point(x, y, z) == [x |-> x, y |-> y, z |-> z]

\* landmarks[i] of the code (0-based) in a sequence (1-based).
Lm(landmarks, i) == landmarks[i + 1]

PointIsNaN(p) == IsNaN(p.x) \/ IsNaN(p.y) \/ IsNaN(p.z)

\* The code reads landmarks[0..20]; a shorter array makes landmarks[20]
\* undefined and the first property read on it throws a TypeError.
LandmarkCount == 21

ThrowsTypeError(landmarks) == Len(landmarks) < LandmarkCount

distance3D(p1, p2) ==
  IF PointIsNaN(p1) \/ PointIsNaN(p2) THEN NaN
  ELSE Sqrt((p1.x - p2.x) * (p1.x - p2.x)
            + (p1.y - p2.y) * (p1.y - p2.y)
            + (p1.z - p2.z) * (p1.z - p2.z))

\* ------------------------------------------------------------ tension

closedValue == 8000

openValue == 17500

\* Math.max(0, Math.min(1, t)); NaN stays NaN.
Clamp01(t) ==
  IF IsNaN(t) THEN NaN
  ELSE IF t < 0 THEN 0 ELSE IF t > Unit THEN Unit ELSE t

calculateTension(landmarks) ==
  LET wrist == Lm(landmarks, 0)
      tips == <<Lm(landmarks, 4), Lm(landmarks, 8), Lm(landmarks, 12),
                Lm(landmarks, 16), Lm(landmarks, 20)>>
      distances == [i \in 1..5 |-> distance3D(wrist, tips[i])]
      anyNaN == \E i \in 1..5 : IsNaN(distances[i])
      sum == distances[1] + distances[2] + distances[3]
             + distances[4] + distances[5]
      palmSize == distance3D(wrist, Lm(landmarks, 9))
  IN  IF anyNaN \/ IsNaN(palmSize) THEN NaN
      ELSE IF palmSize = 0
           \* avgDistance / 0 is NaN for 0 / 0 and Infinity otherwise;
           \* (openValue - Infinity) / 0.95 = -Infinity clamps to 0.
           THEN (IF sum = 0 THEN NaN ELSE 0)
      ELSE LET normalizedDist == (sum * Unit) \div (5 * palmSize)
           IN  Clamp01(FMul(openValue - normalizedDist, Unit,
                            openValue - closedValue))

\* ------------------------------------------------------------ gesture

GestureType == {"none", "point", "pinch", "palm_up", "palm_down", "peace"}

ExtendedThreshold == 400

\* Mutant of isFingerExtended: ten times the threshold.
isFingerExtendedFar(landmarks, fingerBase, fingerTip) ==
  FGt(distance3D(Lm(landmarks, fingerBase), Lm(landmarks, fingerTip)),
      10 * ExtendedThreshold)

isFingerExtended(landmarks, fingerBase, fingerTip) ==
  FGt(distance3D(Lm(landmarks, fingerBase), Lm(landmarks, fingerTip)),
      ExtendedThreshold)

PeaceMaxTension == 5000

PointMinTension == 4000

PinchMaxDistance == 800

PinchMinTension == 6000

PalmMaxTension == 3000

PalmDeadband == 1000

BoolCount(b) == IF b THEN 1 ELSE 0

\* Mutant of detectGesture: the pinch rule tried before the point rule.
detectGesturePinchFirst(landmarks, tension) ==
  LET thumbTip == Lm(landmarks, 4)
      indexTip == Lm(landmarks, 8)
      middleTip == Lm(landmarks, 12)
      ringTip == Lm(landmarks, 16)
      pinkyTip == Lm(landmarks, 20)
      thumbExt == isFingerExtended(landmarks, 2, 4)
      indexExt == isFingerExtended(landmarks, 5, 8)
      middleExt == isFingerExtended(landmarks, 9, 12)
      ringExt == isFingerExtended(landmarks, 13, 16)
      pinkyExt == isFingerExtended(landmarks, 17, 20)
      extendedCount == BoolCount(thumbExt) + BoolCount(indexExt)
                       + BoolCount(middleExt) + BoolCount(ringExt)
                       + BoolCount(pinkyExt)
      thumbIndexDist == distance3D(thumbTip, indexTip)
      ySum == FAdd(FAdd(indexTip.y, middleTip.y), FAdd(ringTip.y, pinkyTip.y))
      avgY == IF IsNaN(ySum) THEN NaN ELSE ySum \div 4
      thumbY == thumbTip.y
  IN  IF indexExt /\ middleExt /\ ~ringExt /\ ~pinkyExt
         /\ FLt(tension, PeaceMaxTension)
      THEN "peace"
      ELSE IF FLt(thumbIndexDist, PinchMaxDistance)
              /\ FGt(tension, PinchMinTension)
      THEN "pinch"
      ELSE IF indexExt /\ ~middleExt /\ ~ringExt /\ ~pinkyExt
              /\ FGt(tension, PointMinTension)
      THEN "point"
      ELSE IF extendedCount >= 4 /\ FLt(tension, PalmMaxTension)
              /\ FGt(avgY, FAdd(thumbY, PalmDeadband))
      THEN "palm_down"
      ELSE IF extendedCount >= 4 /\ FLt(tension, PalmMaxTension)
              /\ FLt(avgY, FSub(thumbY, PalmDeadband))
      THEN "palm_up"
      ELSE "none"

detectGesture(landmarks, tension) ==
  LET thumbTip == Lm(landmarks, 4)
      indexTip == Lm(landmarks, 8)
      middleTip == Lm(landmarks, 12)
      ringTip == Lm(landmarks, 16)
      pinkyTip == Lm(landmarks, 20)
      thumbExt == isFingerExtended(landmarks, 2, 4)
      indexExt == isFingerExtended(landmarks, 5, 8)
      middleExt == isFingerExtended(landmarks, 9, 12)
      ringExt == isFingerExtended(landmarks, 13, 16)
      pinkyExt == isFingerExtended(landmarks, 17, 20)
      extendedCount == BoolCount(thumbExt) + BoolCount(indexExt)
                       + BoolCount(middleExt) + BoolCount(ringExt)
                       + BoolCount(pinkyExt)
      thumbIndexDist == distance3D(thumbTip, indexTip)
      ySum == FAdd(FAdd(indexTip.y, middleTip.y), FAdd(ringTip.y, pinkyTip.y))
      avgY == IF IsNaN(ySum) THEN NaN ELSE ySum \div 4
      thumbY == thumbTip.y
  IN  IF indexExt /\ middleExt /\ ~ringExt /\ ~pinkyExt
         /\ FLt(tension, PeaceMaxTension)
      THEN "peace"
      ELSE IF indexExt /\ ~middleExt /\ ~ringExt /\ ~pinkyExt
              /\ FGt(tension, PointMinTension)
      THEN "point"
      ELSE IF FLt(thumbIndexDist, PinchMaxDistance)
              /\ FGt(tension, PinchMinTension)
      THEN "pinch"
      ELSE IF extendedCount >= 4 /\ FLt(tension, PalmMaxTension)
              /\ FGt(avgY, FAdd(thumbY, PalmDeadband))
      THEN "palm_down"
      ELSE IF extendedCount >= 4 /\ FLt(tension, PalmMaxTension)
              /\ FLt(avgY, FSub(thumbY, PalmDeadband))
      THEN "palm_up"
      ELSE "none"

\* The conditions of the four `if` statements of detectGesture, each taken
\* on its own.
peaceCondition(landmarks, tension) ==
  /\ isFingerExtended(landmarks, 5, 8)
  /\ isFingerExtended(landmarks, 9, 12)
  /\ ~isFingerExtended(landmarks, 13, 16)
  /\ ~isFingerExtended(landmarks, 17, 20)
  /\ FLt(tension, PeaceMaxTension)

pointCondition(landmarks, tension) ==
  /\ isFingerExtended(landmarks, 5, 8)
  /\ ~isFingerExtended(landmarks, 9, 12)
  /\ ~isFingerExtended(landmarks, 13, 16)
  /\ ~isFingerExtended(landmarks, 17, 20)
  /\ FGt(tension, PointMinTension)

\* Mutant of pinchCondition: the tension not looked at.
pinchConditionByDistance(landmarks, tension) ==
  FLt(distance3D(Lm(landmarks, 4), Lm(landmarks, 8)), PinchMaxDistance)

pinchCondition(landmarks, tension) ==
  /\ FLt(distance3D(Lm(landmarks, 4), Lm(landmarks, 8)), PinchMaxDistance)
  /\ FGt(tension, PinchMinTension)

palmCondition(landmarks, tension) ==
  /\ BoolCount(isFingerExtended(landmarks, 2, 4))
     + BoolCount(isFingerExtended(landmarks, 5, 8))
     + BoolCount(isFingerExtended(landmarks, 9, 12))
     + BoolCount(isFingerExtended(landmarks, 13, 16))
     + BoolCount(isFingerExtended(landmarks, 17, 20)) >= 4
  /\ FLt(tension, PalmMaxTension)

\* ------------------------------------------------------------ anchors

\* An optional field of HandTrackingResult: <<>> when absent, <<p>> when set.
Absent == <<>>

Present(p) == <<p>>

IsPresent(field) == Len(field) > 0

\* (a + b) / 2
\* Mutant of Average: the first operand alone.
AverageTakesFirst(a, b) == a

Average(a, b) == FMul(FAdd(a, b), 1, 2)

getGesturePositions(landmarks, gesture) ==
  [fingerTip |-> IF gesture = "point" THEN Present(Lm(landmarks, 8))
                 ELSE Absent,
   pinchPosition |->
     IF gesture = "pinch"
     THEN LET thumb == Lm(landmarks, 4)
              index == Lm(landmarks, 8)
          IN  Present(Point(Average(thumb.x, index.x),
                            Average(thumb.y, index.y),
                            Average(thumb.z, index.z)))
     ELSE Absent,
   peaceOrbit1 |-> IF gesture = "peace" THEN Present(Lm(landmarks, 8))
                   ELSE Absent,
   peaceOrbit2 |-> IF gesture = "peace" THEN Present(Lm(landmarks, 12))
                   ELSE Absent]

\* A HandTrackingResult object.
HandTrackingResult(isDetected, tension, gesture, positions) ==
  [isDetected |-> isDetected, tension |-> tension, gesture |-> gesture,
   fingerTip |-> positions.fingerTip,
   pinchPosition |-> positions.pinchPosition,
   peaceOrbit1 |-> positions.peaceOrbit1,
   peaceOrbit2 |-> positions.peaceOrbit2]

NoPositions ==
  [fingerTip |-> Absent, pinchPosition |-> Absent,
   peaceOrbit1 |-> Absent, peaceOrbit2 |-> Absent]

\* What processDetections hands to onUpdate for a frame with a hand.
DetectedHandData(landmarks) ==
  LET tension == calculateTension(landmarks)
      gesture == detectGesture(landmarks, tension)
  IN  HandTrackingResult(TRUE, tension, gesture,
                         getGesturePositions(landmarks, gesture))

\* What processDetections hands to onUpdate for a frame without a hand.
NoHandData == HandTrackingResult(FALSE, 0, "none", NoPositions)

\* useState's initial value in App: { tension: 0, isDetected: false },
\* with no gesture field.
AppInitialHandData == HandTrackingResult(FALSE, 0, "undefined", NoPositions)

\* ------------------------------------------------------- hand-data effect

LerpThreshold == 1000

FastLerpPercent == 12

SlowLerpPercent == 8

\* Mutant of lerpFactor: the rates 1.2 and 0.8 for 0.12 and 0.08.
lerpFactorTenfold(tensionChange) ==
  IF FGt(FAbs(tensionChange), LerpThreshold) THEN 10 * FastLerpPercent
  ELSE 10 * SlowLerpPercent

\* Mutant of lerpFactor: the two rates exchanged.
lerpFactorExchanged(tensionChange) ==
  IF FGt(FAbs(tensionChange), LerpThreshold) THEN SlowLerpPercent
  ELSE FastLerpPercent

\* lerpFactor, in hundredths.
lerpFactor(tensionChange) ==
  IF FGt(FAbs(tensionChange), LerpThreshold) THEN FastLerpPercent
  ELSE SlowLerpPercent

\* smoothedTensionRef.current += (target - smoothedTensionRef.current) * lerpFactor
SmoothTension(smoothed, tension, tensionChange) ==
  LET targetVisualTension == FSub(Unit, tension)
  IN  FAdd(smoothed,
           FMul(FSub(targetVisualTension, smoothed),
                lerpFactor(tensionChange), 100))

ExplosionThreshold == 3000

ExplosionTrigger == 20000

\* Mutant of explosionTriggered: the signed change, Math.abs left out.
explosionTriggeredSigned(tensionChange) ==
  FGt(tensionChange, ExplosionThreshold)

\* Mutant of explosionTriggered: the smoothing threshold 0.1 for 0.3.
explosionTriggeredAtLerp(tensionChange) ==
  FGt(FAbs(tensionChange), LerpThreshold)

explosionTriggered(tensionChange) ==
  FGt(FAbs(tensionChange), ExplosionThreshold)

\* ------------------------------------------------------------ render loop

ExplosionEpsilon == 100

DecayPercent == 85

\* Mutant of DecayExplosion: the else-if branch that sets 0 left out.
DecayExplosionNoFloor(explosion) ==
  IF explosion > ExplosionEpsilon THEN FMul(explosion, DecayPercent, 100)
  ELSE explosion

\* The explosion branch of animate: the new explosionRef.current.
DecayExplosion(explosion) ==
  IF explosion > ExplosionEpsilon THEN FMul(explosion, DecayPercent, 100)
  ELSE IF explosion > 0 THEN 0
  ELSE explosion

\* Mutant of PublishExplosion: the value before the decay step.
PublishExplosionUndecayed(explosion, uniform) ==
  IF explosion > 0 THEN explosion ELSE uniform

\* uExplosion is assigned only in the two branches that change explosionRef.
PublishExplosion(explosion, uniform) ==
  IF explosion > 0 THEN DecayExplosion(explosion) ELSE uniform

\* Mutant of gestureMap: no entry for peace, which `|| 0` turns into 0.
gestureMapWithoutPeace(gesture) ==
  CASE gesture = "point" -> 1
    [] gesture = "pinch" -> 2
    [] gesture = "palm_up" -> 3
    [] gesture = "palm_down" -> 4
    [] OTHER -> 0

\* gestureMap[gesture] || 0
gestureMap(gesture) ==
  CASE gesture = "none" -> 0
    [] gesture = "point" -> 1
    [] gesture = "pinch" -> 2
    [] gesture = "palm_up" -> 3
    [] gesture = "palm_down" -> 4
    [] gesture = "peace" -> 5
    [] OTHER -> 0

WorldScale == 4

\* value || 0 on a number: 0 and NaN are falsy.
OrZero(value) == IF IsNaN(value) THEN 0 ELSE value

\* Mutant of ToWorld: the depth dropped.
ToWorldFlat(screenPos) ==
  Point(FMul(FSub(screenPos.x, Unit \div 2), WorldScale, 1),
        FMul(FSub(Unit \div 2, screenPos.y), WorldScale, 1),
        0)

\* Mutant of ToWorld: the vertical axis not inverted.
ToWorldNoFlip(screenPos) ==
  Point(FMul(FSub(screenPos.x, Unit \div 2), WorldScale, 1),
        FMul(FSub(screenPos.y, Unit \div 2), WorldScale, 1),
        OrZero(screenPos.z))

\* uniform.value.set((x - 0.5) * 4, (0.5 - y) * 4, z || 0)
ToWorld(screenPos) ==
  Point(FMul(FSub(screenPos.x, Unit \div 2), WorldScale, 1),
        FMul(FSub(Unit \div 2, screenPos.y), WorldScale, 1),
        OrZero(screenPos.z))

\* new THREE.Vector3(0, 0, 0)
ZeroVector == Point(0, 0, 0)

\* uGesturePos after the fingerTip and pinchPosition branches of animate.
NextGesturePos(hand, current) ==
  IF IsPresent(hand.pinchPosition) THEN ToWorld(hand.pinchPosition[1])
  ELSE IF IsPresent(hand.fingerTip) THEN ToWorld(hand.fingerTip[1])
  ELSE current

\* uPeacePos1 / uPeacePos2 after their branch of animate.
NextPeacePos(orbit, current) ==
  IF IsPresent(orbit) THEN ToWorld(orbit[1]) ELSE current

\* -------------------------------------------------------- vertex shader

\* a * b of two fixed-point numbers.
FTimes(a, b) == IF IsNaN(b) THEN NaN ELSE FMul(a, b, Unit)

Pi == 31416

\* sin(x): the argument folded into [-pi/2, pi/2], then the series
\* x - x^3/6 + x^5/120 - x^7/5040.
sin(x) ==
  IF IsNaN(x) THEN NaN
  ELSE LET r == ((x + Pi) % (2 * Pi)) - Pi
           f == IF r > Pi \div 2 THEN Pi - r
                ELSE IF r < 0 - (Pi \div 2) THEN 0 - Pi - r
                ELSE r
           t == IF f < 0 THEN 0 - f ELSE f
           t2 == (t * t) \div Unit
           t3 == (t2 * t) \div Unit
           t5 == (t3 * t2) \div Unit
           t7 == (t5 * t2) \div Unit
           s == t - (t3 \div 6) + (t5 \div 120) - (t7 \div 5040)
       IN  IF f < 0 THEN 0 - s ELSE s

\* fract(sin(n) * 43758.5453), at the resolution of the model.
hash(n) == IF IsNaN(n) THEN NaN ELSE (sin(n) * 43758) % Unit

NaNVector == Point(NaN, NaN, NaN)

VAdd(a, b) == Point(FAdd(a.x, b.x), FAdd(a.y, b.y), FAdd(a.z, b.z))

VSub(a, b) == Point(FSub(a.x, b.x), FSub(a.y, b.y), FSub(a.z, b.z))

\* vec3 * float
VScale(v, s) == Point(FTimes(v.x, s), FTimes(v.y, s), FTimes(v.z, s))

\* length(v); components beyond 2.0 are squared at a tenth of the
\* resolution, so that the sum of the squares stays under 2^31.
length(v) ==
  IF PointIsNaN(v) THEN NaN
  ELSE LET ax == FAbs(v.x)
           ay == FAbs(v.y)
           az == FAbs(v.z)
       IN  IF ax <= 2 * Unit /\ ay <= 2 * Unit /\ az <= 2 * Unit
           THEN Sqrt(ax * ax + ay * ay + az * az)
           ELSE 10 * Sqrt((ax \div 10) * (ax \div 10)
                          + (ay \div 10) * (ay \div 10)
                          + (az \div 10) * (az \div 10))

\* normalize(v) divides by length(v); GLSL leaves the result for the zero
\* vector undefined, and implementations return NaN components (0 * inf)
\* or the zero vector. The possible results, as a set.
normalize(v) ==
  IF PointIsNaN(v) THEN {NaNVector}
  ELSE IF v = ZeroVector THEN {NaNVector, ZeroVector}
  ELSE LET len == length(v)
       IN  {Point(FMul(v.x, Unit, len), FMul(v.y, Unit, len),
                  FMul(v.z, Unit, len))}

\* Mutant of mix: the weights exchanged.
mixExchanged(a, b, t) ==
  Point(FAdd(FTimes(a.x, t), FTimes(b.x, Unit - t)),
        FAdd(FTimes(a.y, t), FTimes(b.y, Unit - t)),
        FAdd(FTimes(a.z, t), FTimes(b.z, Unit - t)))

\* mix(a, b, t) = a * (1 - t) + b * t
mix(a, b, t) ==
  Point(FAdd(FTimes(a.x, Unit - t), FTimes(b.x, t)),
        FAdd(FTimes(a.y, Unit - t), FTimes(b.y, t)),
        FAdd(FTimes(a.z, Unit - t), FTimes(b.z, t)))

\* Elapsed seconds per render frame (a 60 Hz display).
FrameTime == Unit \div 60

\* Mutant of gestureForce: the point branch runs for every gesture id.
gestureForceAlwaysPoints(u, pos) ==
  LET toFinger == VSub(u.uGesturePos, pos)
  IN  IF FGt(length(toFinger), 10)
      THEN {VAdd(pos, VScale(n, 350)) : n \in normalize(toFinger)}
      ELSE {pos}

\* GESTURE-BASED PHYSICS of main(): the positions pos may be moved to.
gestureForce(u, pos) ==
  CASE u.uGesture = 1 ->
         LET toFinger == VSub(u.uGesturePos, pos)
         IN  IF FGt(length(toFinger), 10)
             THEN {VAdd(pos, VScale(n, 350)) : n \in normalize(toFinger)}
             ELSE {pos}
    [] u.uGesture = 2 -> {mix(pos, u.uGesturePos, 1500)}
    [] u.uGesture = 3 -> {[pos EXCEPT !.y = FAdd(@, 500)]}
    [] u.uGesture = 4 -> {[pos EXCEPT !.y = FSub(@, 500)]}
    [] u.uGesture = 5 ->
         LET d1 == length(VSub(u.uPeacePos1, pos))
             d2 == length(VSub(u.uPeacePos2, pos))
             centre == IF FLt(d1, d2) THEN u.uPeacePos1 ELSE u.uPeacePos2
         IN  {VAdd(pos, VScale(n, 250)) : n \in normalize(VSub(centre, pos))}
    [] OTHER -> {pos}

\* main() of the vertex shader for one vertex, up to the model-view
\* transform: the positions pos can have, one unless a normalize is
\* undefined.
vertexShader(u, targetPos, trailIdx) ==
  LET lag == trailIdx * 800
      effectiveTime == u.uTime - lag
      noiseVal == FMul(hash(targetPos.x + targetPos.y * 2
                            + FMul(effectiveTime, 1, 10)), 4, 100)
      breath == FMul(sin(FMul(effectiveTime, 6, 10)), 2, 100)
      expansion == FAdd(FMul(u.uTension, 18, 10), 3000)
      distFromCenter == length(targetPos)
      explode == FTimes(5000 + distFromCenter * 2, FMul(u.uExplosion, 3, 1))
      jitter == FMul(noiseVal, 5, 100)
      placed == VAdd(VScale(targetPos, FAdd(expansion, breath)),
                     Point(jitter, jitter, jitter))
  IN  UNION {gestureForce(u, VAdd(placed, VScale(explodeDir, explode))) :
               explodeDir \in normalize(VAdd(targetPos, Point(10, 10, 10)))}

\* ------------------------------------------------- landmark sets delivered

\* A 21-point hand held upright (wrist low in the image, fingers toward
\* smaller y), given by its five fingertips; the finger bases are fixed and
\* the landmarks the code never reads sit on the wrist.
UprightHand(thumbTip, indexTip, middleTip, ringTip, pinkyTip) ==
  [i \in 1..LandmarkCount |->
     CASE i = 1 -> Point(5000, 8000, 0)
       [] i = 3 -> Point(4000, 7000, 0)
       [] i = 5 -> thumbTip
       [] i = 6 -> Point(4200, 6000, 0)
       [] i = 9 -> indexTip
       [] i = 10 -> Point(5000, 6000, 0)
       [] i = 13 -> middleTip
       [] i = 14 -> Point(5600, 6100, 0)
       [] i = 17 -> ringTip
       [] i = 18 -> Point(6200, 6300, 0)
       [] i = 21 -> pinkyTip
       [] OTHER -> Point(5000, 8000, 0)]

\* The same hand turned over: every y mirrored about the image centre.
Mirrored(landmarks) ==
  [i \in 1..Len(landmarks) |->
     Point(landmarks[i].x, Unit - landmarks[i].y, landmarks[i].z)]

\* Fingertips: curled onto the finger's base, or stretched out.
ThumbCurled == Point(4000, 7300, 0)

IndexCurled == Point(4200, 6300, 0)

MiddleCurled == Point(5000, 6300, 0)

RingCurled == Point(5600, 6400, 0)

PinkyCurled == Point(6200, 6600, 0)

ThumbOut == Point(2500, 6000, -100)

IndexOut == Point(4000, 3000, -300)

MiddleOut == Point(5200, 3000, -200)

RingOut == Point(5800, 3200, 0)

PinkyOut == Point(6600, 4000, 0)

FistHand ==
  UprightHand(ThumbCurled, IndexCurled, MiddleCurled, RingCurled, PinkyCurled)

PinchHand ==
  UprightHand(Point(4300, 6500, 0), IndexCurled, MiddleCurled, RingCurled,
              PinkyCurled)

PointHand ==
  UprightHand(ThumbCurled, IndexOut, MiddleCurled, RingCurled, PinkyCurled)

PeaceHand ==
  UprightHand(ThumbCurled, IndexOut, MiddleOut, RingCurled, PinkyCurled)

PalmUpHand == UprightHand(ThumbOut, IndexOut, MiddleOut, RingOut, PinkyOut)

PalmDownHand == Mirrored(PalmUpHand)

\* A landmark array cut short by the provider.
ShortHand == SubSeq(PointHand, 1, 10)

\* A hand whose index fingertip has a non-finite x.
NaNHand == [PointHand EXCEPT ![9] = Point(NaN, 3000, 0)]

\* More fingertips: the thumb tip beside a barely raised index finger, the
\* thumb tip level with the stretched fingers, a barely raised index.
ThumbNearIndex == Point(4300, 5900, 0)

ThumbLevel == Point(2500, 3300, 0)

IndexSlight == Point(4200, 5500, 0)

\* A pointing hand whose index fingertip is at the image centre.
CentredPointHand ==
  UprightHand(ThumbCurled, Point(5000, 5000, -300), MiddleCurled, RingCurled,
              PinkyCurled)

\* Every finger raised a little off its base: five extended fingers on a
\* hand that is still nearly closed.
HalfOpenHand ==
  UprightHand(ThumbOut, IndexSlight, Point(5000, 5500, 0),
              Point(5600, 5600, 0), Point(6200, 5800, 0))

\* An open hand seen from the side: the thumb tip level with the
\* fingertips.
LevelPalmHand == UprightHand(ThumbLevel, IndexOut, MiddleOut, RingOut, PinkyOut)

\* All 21 landmarks on one point.
DegenerateHand == [i \in 1..LandmarkCount |-> Point(5000, 5000, 0)]

\* Every combination of the fingertips above, upright, and the rest.
ClassifierHands ==
  {UprightHand(thumbTip, indexTip, middleTip, ringTip, pinkyTip) :
     thumbTip \in {ThumbCurled, ThumbOut, ThumbNearIndex, ThumbLevel},
     indexTip \in {IndexCurled, IndexSlight, IndexOut},
     middleTip \in {MiddleCurled, MiddleOut},
     ringTip \in {RingCurled, RingOut},
     pinkyTip \in {PinkyCurled, PinkyOut}}
  \cup {PinchHand, PalmDownHand, CentredPointHand, HalfOpenHand,
        DegenerateHand}

\* result.landmarks of a HandLandmarkerResult (numHands: 1): no hand, or one.
NoHand == <<>>

WellFormedResults ==
  {NoHand, <<FistHand>>, <<PinchHand>>, <<PointHand>>, <<PeaceHand>>,
   <<PalmUpHand>>, <<PalmDownHand>>}

MalformedResults == {<<ShortHand>>, <<NaNHand>>}

\* -------------------------------------------------------------- state

VARIABLES
  \* HandTracker
  lastVideoTimeRef,      \* currentTime of the last video frame processed
  animationFrameRef,     \* TRUE while a predictWebcam callback is scheduled
  lastGestureRef,        \* declared by HandTracker, never read or written
  gestureHysteresisRef,  \* declared by HandTracker, never read or written
  detections,            \* the landmark sets detectForVideo returned last
  \* App
  handData,              \* the handData state passed to ParticleSystem
  effectPending,         \* handData changed; the effect on it has yet to run
  \* ParticleSystem refs
  handDataRef,
  smoothedTensionRef,
  prevTensionRef,
  explosionRef,
  \* ShaderMaterial uniforms
  uTime,                 \* elapsed time, in render frames
  uTension,
  uExplosion,
  uGesture,
  uGesturePos,
  uPeacePos1,
  uPeacePos2,
  \* the frame on screen: the position of each vertex of ParticleList
  rendered,
  \* observation log: the gestures of the frames delivered to onUpdate,
  \* the most recent last, at most RunLength of them
  rawHistory

trackerVars ==
  <<lastVideoTimeRef, animationFrameRef, lastGestureRef, gestureHysteresisRef,
    detections>>

refVars == <<handDataRef, smoothedTensionRef, prevTensionRef, explosionRef>>

uniformVars ==
  <<uTime, uTension, uExplosion, uGesture, uGesturePos, uPeacePos1, uPeacePos2>>

vars ==
  <<trackerVars, handData, effectPending, refVars, uniformVars, rendered,
    rawHistory>>

\* The uniform values the vertex shader reads; uTime in seconds.
Uniforms ==
  [uTime |-> uTime * FrameTime, uTension |-> uTension,
   uExplosion |-> uExplosion, uGesture |-> uGesture,
   uGesturePos |-> uGesturePos, uPeacePos1 |-> uPeacePos1,
   uPeacePos2 |-> uPeacePos2]

\* Vertices of the geometry: a rest position and a trail index each.
ParticleList ==
  <<[targetPos |-> Point(3000, 4000, 0), trailIdx |-> 0],
    [targetPos |-> Point(-5000, 2000, 6000), trailIdx |-> 2],
    [targetPos |-> ZeroVector, trailIdx |-> 4]>>

Particles == {ParticleList[i] : i \in 1..Len(ParticleList)}

\* renderer.render: the vertex shader run on every vertex with the uniform
\* values u; the frames that can result.
RenderedFrames(u) ==
  LET first == vertexShader(u, ParticleList[1].targetPos, ParticleList[1].trailIdx)
      second == vertexShader(u, ParticleList[2].targetPos, ParticleList[2].trailIdx)
      third == vertexShader(u, ParticleList[3].targetPos, ParticleList[3].trailIdx)
  IN  {<<a, b, c>> : a \in first, b \in second, c \in third}

\* ------------------------------------------------------------- bounds

\* Video frames carry the timestamps 0..MaxVideoTime.
MaxVideoTime == 2

\* Render frames of the main specification.
MaxTime == 3

\* The consecutive-frame run length the stabilizer is documented to need.
RunLength == 3

Init ==
  /\ lastVideoTimeRef = -1
  /\ animationFrameRef = TRUE
  /\ lastGestureRef = "none"
  /\ gestureHysteresisRef = 0
  /\ detections = <<>>
  /\ handData = AppInitialHandData
  /\ effectPending = FALSE
  /\ handDataRef = NoHandData
  /\ smoothedTensionRef = 0
  /\ prevTensionRef = 0
  /\ explosionRef = 0
  /\ uTime = 0
  /\ uTension = Unit \div 2
  /\ uExplosion = 0
  /\ uGesture = 0
  /\ uGesturePos = ZeroVector
  /\ uPeacePos1 = ZeroVector
  /\ uPeacePos2 = ZeroVector
  /\ rendered = <<ZeroVector, ZeroVector, ZeroVector>>
  /\ rawHistory = <<>>

\* ------------------------------------------------------------ actions

Observe(history, gesture) ==
  LET all == Append(history, gesture)
  IN  IF Len(all) > RunLength THEN Tail(all) ELSE all

\* Mutant of PredictWebcam: a detected hand keeps the gesture of the frame
\* before it for one more frame.
PredictWebcamKeepsGesture(result, maxVideoTime) ==
  /\ animationFrameRef
  /\ lastVideoTimeRef < maxVideoTime
  /\ lastVideoTimeRef' = lastVideoTimeRef + 1
  /\ detections' = result
  /\ IF Len(result) > 0 /\ ThrowsTypeError(result[1])
     THEN /\ animationFrameRef' = FALSE
          /\ UNCHANGED <<handData, effectPending, rawHistory>>
     ELSE /\ animationFrameRef' = TRUE
          /\ handData' =
               IF Len(result) = 0 THEN NoHandData
               ELSE IF handData.isDetected
                       /\ handData.gesture # DetectedHandData(result[1]).gesture
                       /\ (Len(rawHistory) < 2
                           \/ rawHistory[Len(rawHistory) - 1] # handData.gesture)
               THEN [DetectedHandData(result[1]) EXCEPT
                       !.gesture = handData.gesture]
               ELSE DetectedHandData(result[1])
          /\ effectPending' = TRUE
          /\ rawHistory' = Observe(rawHistory, handData'.gesture)
  /\ UNCHANGED <<lastGestureRef, gestureHysteresisRef, refVars, uniformVars,
                 rendered>>

\* predictWebcam on a new video frame whose detection is `result`:
\* processDetections, onUpdate (App's setHandData), then the next
\* requestAnimationFrame. A TypeError thrown on the way leaves predictWebcam
\* before it reschedules itself. React runs the effect on handData later; a
\* delivery that arrives first replaces the handData the effect will see.
PredictWebcam(result, maxVideoTime) ==
  /\ animationFrameRef
  /\ lastVideoTimeRef < maxVideoTime
  /\ lastVideoTimeRef' = lastVideoTimeRef + 1
  /\ detections' = result
  /\ IF Len(result) > 0 /\ ThrowsTypeError(result[1])
     THEN /\ animationFrameRef' = FALSE
          /\ UNCHANGED <<handData, effectPending, rawHistory>>
     ELSE /\ animationFrameRef' = TRUE
          /\ handData' = IF Len(result) > 0 THEN DetectedHandData(result[1])
                         ELSE NoHandData
          /\ effectPending' = TRUE
          /\ rawHistory' = Observe(rawHistory, handData'.gesture)
  /\ UNCHANGED <<lastGestureRef, gestureHysteresisRef, refVars, uniformVars,
                 rendered>>

\* Mutant of HandDataEffect: the effect also writes the uTension uniform,
\* as the effect on [config] writes uColor and uStyle.
HandDataEffectPublishes ==
  /\ effectPending
  /\ effectPending' = FALSE
  /\ IF ~handData.isDetected
     THEN UNCHANGED <<refVars, uTension>>
     ELSE LET tension == handData.tension
              tensionChange == FSub(tension, prevTensionRef)
          IN  /\ handDataRef' = handData
              /\ smoothedTensionRef' =
                   SmoothTension(smoothedTensionRef, tension, tensionChange)
              /\ uTension' = smoothedTensionRef'
              /\ explosionRef' = IF explosionTriggered(tensionChange)
                                 THEN ExplosionTrigger ELSE explosionRef
              /\ prevTensionRef' = tension
  /\ UNCHANGED <<trackerVars, handData, uTime, uExplosion, uGesture,
                 uGesturePos, uPeacePos1, uPeacePos2, rendered, rawHistory>>

\* Mutant of HandDataEffect: the effect copies the tension and the gesture
\* into handDataRef and leaves the anchors stored there alone.
HandDataEffectKeepsAnchors ==
  /\ effectPending
  /\ effectPending' = FALSE
  /\ IF ~handData.isDetected
     THEN UNCHANGED refVars
     ELSE LET tension == handData.tension
              tensionChange == FSub(tension, prevTensionRef)
          IN  /\ handDataRef' = [handDataRef EXCEPT
                                   !.isDetected = TRUE,
                                   !.tension = tension,
                                   !.gesture = handData.gesture]
              /\ smoothedTensionRef' =
                   SmoothTension(smoothedTensionRef, tension, tensionChange)
              /\ explosionRef' = IF explosionTriggered(tensionChange)
                                 THEN ExplosionTrigger ELSE explosionRef
              /\ prevTensionRef' = tension
  /\ UNCHANGED <<trackerVars, handData, uniformVars, rendered, rawHistory>>

\* Mutant of HandDataEffect: an update without a hand clears the recorded
\* previous tension.
HandDataEffectForgets ==
  /\ effectPending
  /\ effectPending' = FALSE
  /\ IF ~handData.isDetected
     THEN /\ prevTensionRef' = 0
          /\ UNCHANGED <<handDataRef, smoothedTensionRef, explosionRef>>
     ELSE LET tension == handData.tension
              tensionChange == FSub(tension, prevTensionRef)
          IN  /\ handDataRef' = handData
              /\ smoothedTensionRef' =
                   SmoothTension(smoothedTensionRef, tension, tensionChange)
              /\ explosionRef' = IF explosionTriggered(tensionChange)
                                 THEN ExplosionTrigger ELSE explosionRef
              /\ prevTensionRef' = tension
  /\ UNCHANGED <<trackerVars, handData, uniformVars, rendered, rawHistory>>

\* ParticleSystem's useEffect on [handData].
HandDataEffect ==
  /\ effectPending
  /\ effectPending' = FALSE
  /\ IF ~handData.isDetected
     THEN UNCHANGED refVars
     ELSE LET tension == handData.tension
              tensionChange == FSub(tension, prevTensionRef)
          IN  /\ handDataRef' = handData
              /\ smoothedTensionRef' =
                   SmoothTension(smoothedTensionRef, tension, tensionChange)
              /\ explosionRef' = IF explosionTriggered(tensionChange)
                                 THEN ExplosionTrigger ELSE explosionRef
              /\ prevTensionRef' = tension
  /\ UNCHANGED <<trackerVars, handData, uniformVars, rendered, rawHistory>>

\* Mutant of Animate: the render loop relaxes Smoothed Tension itself, by the
\* explosion's factor, every frame.
AnimateRelaxesTension(maxTime) ==
  /\ uTime < maxTime
  /\ uTime' = uTime + 1
  /\ explosionRef' = DecayExplosion(explosionRef)
  /\ uExplosion' = PublishExplosion(explosionRef, uExplosion)
  /\ smoothedTensionRef' = FMul(smoothedTensionRef, DecayPercent, 100)
  /\ uTension' = smoothedTensionRef'
  /\ uGesture' = gestureMap(handDataRef.gesture)
  /\ uGesturePos' = NextGesturePos(handDataRef, uGesturePos)
  /\ uPeacePos1' = NextPeacePos(handDataRef.peaceOrbit1, uPeacePos1)
  /\ uPeacePos2' = NextPeacePos(handDataRef.peaceOrbit2, uPeacePos2)
  /\ rendered' \in RenderedFrames(Uniforms')
  /\ UNCHANGED <<trackerVars, handData, effectPending, handDataRef,
                 prevTensionRef, rawHistory>>

\* Mutant of Animate: under the gesture pinch each vertex is moved from
\* where it was displayed on the frame before, not from its rest position.
AnimateCarriesPosition(maxTime) ==
  /\ uTime < maxTime
  /\ uTime' = uTime + 1
  /\ explosionRef' = DecayExplosion(explosionRef)
  /\ uExplosion' = PublishExplosion(explosionRef, uExplosion)
  /\ uTension' = smoothedTensionRef
  /\ uGesture' = gestureMap(handDataRef.gesture)
  /\ uGesturePos' = NextGesturePos(handDataRef, uGesturePos)
  /\ uPeacePos1' = NextPeacePos(handDataRef.peaceOrbit1, uPeacePos1)
  /\ uPeacePos2' = NextPeacePos(handDataRef.peaceOrbit2, uPeacePos2)
  /\ IF uGesture' = 2 /\ uGesture = 2
     THEN rendered' = [i \in 1..Len(ParticleList) |->
                         mix(rendered[i], uGesturePos', 1500)]
     ELSE rendered' \in RenderedFrames(Uniforms')
  /\ UNCHANGED <<trackerVars, handData, effectPending, handDataRef,
                 smoothedTensionRef, prevTensionRef, rawHistory>>

\* One run of animate, the render loop's requestAnimationFrame callback,
\* down to renderer.render.
Animate(maxTime) ==
  /\ uTime < maxTime
  /\ uTime' = uTime + 1
  /\ explosionRef' = DecayExplosion(explosionRef)
  /\ uExplosion' = PublishExplosion(explosionRef, uExplosion)
  /\ uTension' = smoothedTensionRef
  /\ uGesture' = gestureMap(handDataRef.gesture)
  /\ uGesturePos' = NextGesturePos(handDataRef, uGesturePos)
  /\ uPeacePos1' = NextPeacePos(handDataRef.peaceOrbit1, uPeacePos1)
  /\ uPeacePos2' = NextPeacePos(handDataRef.peaceOrbit2, uPeacePos2)
  /\ rendered' \in RenderedFrames(Uniforms')
  /\ UNCHANGED <<trackerVars, handData, effectPending, handDataRef,
                 smoothedTensionRef, prevTensionRef, rawHistory>>

\* App's handleHandUpdate called with `update`, a HandTrackingResult not
\* derived from landmarks here: setHandData, then the effect on handData.
OnUpdate(update, maxVideoTime) ==
  /\ animationFrameRef
  /\ lastVideoTimeRef < maxVideoTime
  /\ lastVideoTimeRef' = lastVideoTimeRef + 1
  /\ handData' = update
  /\ effectPending' = TRUE
  /\ rawHistory' = Observe(rawHistory, update.gesture)
  /\ UNCHANGED <<animationFrameRef, lastGestureRef, gestureHysteresisRef,
                 detections, refVars, uniformVars, rendered>>

\* ----------------------------------------------------- specifications

\* Well-formed deliveries only.
Next ==
  \/ \E result \in WellFormedResults : PredictWebcam(result, MaxVideoTime)
  \/ HandDataEffect
  \/ Animate(MaxTime)

Spec == Init /\ [][Next]_vars

\* Deliveries that may be malformed.
NextMalformed ==
  \/ \E result \in WellFormedResults \cup MalformedResults :
       PredictWebcam(result, MaxVideoTime)
  \/ HandDataEffect
  \/ Animate(MaxTime)

SpecMalformed == Init /\ [][NextMalformed]_vars

\* Few deliveries and a long run of render frames: the whole decay of an
\* explosion.
MaxDecayVideoTime == 1

MaxDecayTime == 36

DecayResults == {NoHand, <<FistHand>>, <<PalmUpHand>>}

NextDecay ==
  \/ \E result \in DecayResults : PredictWebcam(result, MaxDecayVideoTime)
  \/ HandDataEffect
  \/ Animate(MaxDecayTime)

SpecDecay == Init /\ [][NextDecay]_vars

\* One delivery drawn from many landmark sets: the classification of a
\* single frame, and the render frame that publishes it.
MaxClassifyVideoTime == 0

MaxClassifyTime == 1

ClassifierResults == {<<landmarks>> : landmarks \in ClassifierHands}

NextClassify ==
  \/ \E result \in ClassifierResults :
       PredictWebcam(result, MaxClassifyVideoTime)
  \/ HandDataEffect
  \/ Animate(MaxClassifyTime)

SpecClassify == Init /\ [][NextClassify]_vars

\* Two deliveries among hands with and without anchors, open enough that
\* an anchor can be published without an explosion.
MaxFieldVideoTime == 1

MaxFieldTime == 2

FieldResults == {NoHand, <<PeaceHand>>, <<PointHand>>, <<LevelPalmHand>>}

NextField ==
  \/ \E result \in FieldResults : PredictWebcam(result, MaxFieldVideoTime)
  \/ HandDataEffect
  \/ Animate(MaxFieldTime)

SpecField == Init /\ [][NextField]_vars

\* Two deliveries among a pinch, a fist and no hand, and render frames
\* past the end of the explosion the first of them sets off.
MaxPinchVideoTime == 1

MaxPinchTime == 36

PinchResults == {NoHand, <<PinchHand>>, <<FistHand>>}

NextPinch ==
  \/ \E result \in PinchResults : PredictWebcam(result, MaxPinchVideoTime)
  \/ HandDataEffect
  \/ Animate(MaxPinchTime)

SpecPinch == Init /\ [][NextPinch]_vars

\* The ParticleSystem component on its own: its handData prop takes values
\* of the type HandTrackingResult, whose anchor fields are optional
\* whatever the gesture is.
MaxPropsVideoTime == 1

MaxPropsTime == 2

WithoutAnchors(hand) ==
  HandTrackingResult(hand.isDetected, hand.tension, hand.gesture, NoPositions)

PropsUpdates ==
  LET full == {DetectedHandData(PointHand), DetectedHandData(PinchHand),
               DetectedHandData(PeaceHand)}
  IN  full \cup {WithoutAnchors(hand) : hand \in full} \cup {NoHandData}

NextProps ==
  \/ \E update \in PropsUpdates : OnUpdate(update, MaxPropsVideoTime)
  \/ HandDataEffect
  \/ Animate(MaxPropsTime)

SpecProps == Init /\ [][NextProps]_vars

\* ------------------------------------------------------------- claims

\* The steps of a behaviour, told apart by what only they change.
IsRenderFrame == uTime' # uTime

IsHandUpdate == effectPending /\ ~effectPending'

IsDelivery == lastVideoTimeRef' # lastVideoTimeRef

\* |tension - prevTensionRef| > threshold for finite numbers, written out.
TensionJump(threshold) ==
  /\ ~IsNaN(handData.tension)
  /\ ~IsNaN(prevTensionRef)
  /\ \/ handData.tension - prevTensionRef > threshold
     \/ prevTensionRef - handData.tension > threshold

\* C1: the gesture published for a detected hand changes from g to another
\* value only when the last RunLength processed frames all classified
\* differently from g.
C1_SwitchNeedsRun ==
  [][(/\ handData.isDetected
      /\ handData'.isDetected
      /\ handData'.gesture # handData.gesture)
     => (/\ Len(rawHistory') = RunLength
         /\ \A i \in 1..RunLength : rawHistory'[i] # handData.gesture)]_vars

\* C2: once a frame without a hand has been processed, the hand data the
\* render loop consumes is tension 0, gesture none, no anchors, and the
\* render frame publishes gesture id 0.
C2_NoHandResets ==
  [][(IsRenderFrame /\ ~handData.isDetected /\ ~effectPending)
     => (handDataRef = NoHandData /\ uGesture' = 0)]_vars

\* C3: a detected-hand update whose tension differs from the recorded
\* previous tension by more than 0.3 sets Explosion Energy to 2.0.
C3_JumpTriggers ==
  [][(IsHandUpdate /\ handData.isDetected /\ TensionJump(ExplosionThreshold))
     => explosionRef' = ExplosionTrigger]_vars

\* C3 witness: a trigger that restarted an impulse still decaying.
C3_Retriggered ==
  /\ explosionRef = ExplosionTrigger
  /\ uExplosion > 0
  /\ uExplosion < ExplosionTrigger
  /\ ~effectPending

\* C4: on every render frame a positive Explosion Energy strictly decreases,
\* by the factor 0.85 while above the epsilon 0.01 and to exactly 0 once at
\* or under it, and an Explosion Energy of 0 stays 0.
C4_Decay ==
  [][IsRenderFrame
     => /\ explosionRef > 0 => explosionRef' < explosionRef
        /\ explosionRef > ExplosionEpsilon
             => /\ explosionRef' * 100 <= explosionRef * DecayPercent
                /\ explosionRef' * 100 > explosionRef * DecayPercent - 100
        /\ explosionRef <= ExplosionEpsilon => explosionRef' = 0
        /\ explosionRef' >= 0]_vars

\* C4 witness: a single delivery triggered the explosion and the render
\* frames since have brought it to exactly 0.
C4_DecayedToZero ==
  /\ lastVideoTimeRef = 0
  /\ ~effectPending
  /\ prevTensionRef > ExplosionThreshold
  /\ explosionRef = 0
  /\ uExplosion = 0

\* C5: Explosion Energy rises only in a detected-hand update whose tension
\* change exceeds 0.3 in absolute value.
C5_RisesOnlyOnJump ==
  [][explosionRef' > explosionRef
     => (IsHandUpdate /\ handData.isDetected
         /\ TensionJump(ExplosionThreshold))]_vars

\* C5 witness: a first detected update with tension in (0.1, 0.3] has run
\* and left Explosion Energy at 0.
C5_SmallChangeNoTrigger ==
  /\ handDataRef.isDetected
  /\ ~effectPending
  /\ lastVideoTimeRef = 0
  /\ prevTensionRef > LerpThreshold
  /\ prevTensionRef <= ExplosionThreshold
  /\ explosionRef = 0

\* C6: Smoothed Tension stays in [0, 1] and Explosion Energy in [0, 2.0],
\* in the refs and as published.
C6_Domains ==
  /\ smoothedTensionRef \in 0..Unit
  /\ uTension \in 0..Unit
  /\ explosionRef \in 0..ExplosionTrigger
  /\ uExplosion \in 0..ExplosionTrigger

\* C6 witness: both signals strictly inside their domains and published.
C6_BothActive ==
  /\ smoothedTensionRef > 0
  /\ smoothedTensionRef < Unit
  /\ uTension = smoothedTensionRef
  /\ explosionRef > 0
  /\ explosionRef < ExplosionTrigger
  /\ uExplosion = explosionRef

\* The world point of a camera-space point with finite coordinates:
\* ((x - 0.5) * 4, (0.5 - y) * 4, z).
WorldOf(p) == Point((p.x - 5000) * 4, (5000 - p.y) * 4, p.z)

\* The camera-space anchor behind uGesturePos: the pinch centroid or the
\* fingertip, <<>> when the hand data holds neither.
GestureAnchor(hand) ==
  IF IsPresent(hand.pinchPosition) THEN hand.pinchPosition
  ELSE hand.fingerTip

Published == <<uTension, uGesture, uGesturePos, uPeacePos1, uPeacePos2>>

\* The uniforms agree with the refs, as after a render frame.
InStep ==
  /\ uTension = smoothedTensionRef
  /\ handDataRef.gesture \in GestureType
  /\ uGesture = CHOOSE id \in 0..5 :
       <<handDataRef.gesture, id>> \in
         {<<"none", 0>>, <<"point", 1>>, <<"pinch", 2>>, <<"palm_up", 3>>,
          <<"palm_down", 4>>, <<"peace", 5>>}
  /\ IsPresent(GestureAnchor(handDataRef))
       => uGesturePos = WorldOf(GestureAnchor(handDataRef)[1])
  /\ IsPresent(handDataRef.peaceOrbit1)
       => uPeacePos1 = WorldOf(handDataRef.peaceOrbit1[1])
  /\ IsPresent(handDataRef.peaceOrbit2)
       => uPeacePos2 = WorldOf(handDataRef.peaceOrbit2[1])

\* C8: a render frame changes neither the hand data nor Smoothed Tension,
\* brings the uniforms in step with them, and, when they already are (no
\* hand update since the last render frame), leaves the published gesture,
\* anchors and tension as they were; Explosion Energy does not rise.
C8_RenderFramesHold ==
  [][IsRenderFrame
     => /\ UNCHANGED <<handData, handDataRef, smoothedTensionRef,
                       prevTensionRef>>
        /\ InStep'
        /\ InStep => Published' = Published
        /\ explosionRef' <= explosionRef]_vars

\* C8 witness: two render frames have passed since the pinch whose delivery
\* triggered the explosion (set to 2.0, decayed twice), the uniforms in step.
C8_TwoFramesAfterPinch ==
  /\ handDataRef.gesture = "pinch"
  /\ ~effectPending
  /\ InStep
  /\ uExplosion = 14450
  /\ explosionRef = uExplosion

\* C9: the render loop only reads Smoothed Tension, Explosion Energy and the
\* hand data; it writes none of them.
C9_RenderOnlyReads ==
  [][IsRenderFrame
     => UNCHANGED <<smoothedTensionRef, explosionRef, handDataRef>>]_vars

\* C9 as amended: Smoothed Tension, the recorded previous tension and the
\* hand data are written by the hand update alone and the uniforms by the
\* render frame alone; Explosion Energy is written by both, the hand update
\* setting it to 2.0 and the render frame lowering it; a delivery writes
\* none of them.
C9_Writers ==
  [][/\ IsRenderFrame
          => /\ UNCHANGED <<smoothedTensionRef, prevTensionRef, handDataRef>>
             /\ explosionRef' <= explosionRef
     /\ IsHandUpdate
          => /\ UNCHANGED uniformVars
             /\ explosionRef' \in {explosionRef, ExplosionTrigger}
     /\ IsDelivery => UNCHANGED <<refVars, uniformVars>>]_vars

\* C9 witness: Explosion Energy written by the hand update (2.0) and then by
\* one render frame (1.7), next to a Smoothed Tension the update wrote.
C9_BothWroteExplosion ==
  /\ explosionRef = 17000
  /\ uExplosion = 17000
  /\ smoothedTensionRef > 0
  /\ uTension = smoothedTensionRef

\* C10: a malformed landmark set is rejected: the detection loop stays
\* scheduled and no non-finite value reaches the hand data, Smoothed
\* Tension or the published tension.
C10_MalformedRejected ==
  /\ animationFrameRef
  /\ ~IsNaN(handData.tension)
  /\ ~IsNaN(handDataRef.tension)
  /\ ~IsNaN(smoothedTensionRef)
  /\ ~IsNaN(uTension)

\* The gesture of `hand` needs an anchor that `hand` does not carry.
AnchorMissing(hand) ==
  \/ hand.gesture = "point" /\ ~IsPresent(hand.fingerTip)
  \/ hand.gesture = "pinch" /\ ~IsPresent(hand.pinchPosition)
  \/ /\ hand.gesture = "peace"
     /\ (~IsPresent(hand.peaceOrbit1) \/ ~IsPresent(hand.peaceOrbit2))

Classified == Len(detections) > 0 /\ handData.isDetected

Landmark(i) == detections[1][i + 1]

DistSq(a, b) ==
  (a.x - b.x) * (a.x - b.x) + (a.y - b.y) * (a.y - b.y)
  + (a.z - b.z) * (a.z - b.z)

\* distance(base, tip) > 0.04
Extended(base, tip) == DistSq(Landmark(base), Landmark(tip)) > 400 * 400

TensionBelow(t) == ~IsNaN(handData.tension) /\ handData.tension < t

TensionAbove(t) == ~IsNaN(handData.tension) /\ handData.tension > t

\* The conditions of the four rules, each on its own.
PeaceRule ==
  /\ Extended(5, 8) /\ Extended(9, 12)
  /\ ~Extended(13, 16) /\ ~Extended(17, 20)
  /\ TensionBelow(5000)

PointRule ==
  /\ Extended(5, 8) /\ ~Extended(9, 12)
  /\ ~Extended(13, 16) /\ ~Extended(17, 20)
  /\ TensionAbove(4000)

PinchRule ==
  /\ DistSq(Landmark(4), Landmark(8)) < 800 * 800
  /\ TensionAbove(6000)

OpenPalm ==
  /\ Cardinality({f \in {<<2, 4>>, <<5, 8>>, <<9, 12>>, <<13, 16>>, <<17, 20>>} :
                    Extended(f[1], f[2])}) >= 4
  /\ TensionBelow(3000)

FingertipYSum ==
  Landmark(8).y + Landmark(12).y + Landmark(16).y + Landmark(20).y

\* average y > thumb y + 0.1, and average y < thumb y - 0.1
PalmDownRule == OpenPalm /\ FingertipYSum > 4 * (Landmark(4).y + 1000)

PalmUpRule == OpenPalm /\ FingertipYSum < 4 * (Landmark(4).y - 1000)

\* C12: the rules are tried in the order peace, point, pinch, palm
\* orientation, and the first whose conditions hold gives the gesture,
\* whichever later rules hold as well.
C12_FirstMatchWins ==
  Classified
  => /\ PeaceRule => handData.gesture = "peace"
     /\ (~PeaceRule /\ PointRule) => handData.gesture = "point"
     /\ (~PeaceRule /\ ~PointRule /\ PinchRule) => handData.gesture = "pinch"
     /\ (~PeaceRule /\ ~PointRule /\ ~PinchRule /\ PalmDownRule)
          => handData.gesture = "palm_down"
     /\ (~PeaceRule /\ ~PointRule /\ ~PinchRule /\ PalmUpRule)
          => handData.gesture = "palm_up"

\* C12 witness: a frame that satisfies the point and the pinch rule and is
\* classified as point.
C12_PointBeatsPinch ==
  Classified /\ PointRule /\ PinchRule /\ handData.gesture = "point"

C14_GestureOfLandmarksOnly ==
  Classified
  => handData.gesture =
       CASE detections = <<FistHand>> -> "none"
         [] detections = <<PinchHand>> -> "pinch"
         [] detections = <<PointHand>> -> "point"
         [] detections = <<PeaceHand>> -> "peace"
         [] detections = <<PalmUpHand>> -> "palm_up"
         [] detections = <<PalmDownHand>> -> "palm_down"

\* C14 witness: the pinching hand classified after a peace and a point
\* frame, with the refs of the render loop still on the point frame.
C14_PinchAfterOthers ==
  /\ Classified
  /\ detections = <<PinchHand>>
  /\ rawHistory = <<"peace", "point", "pinch">>
  /\ handDataRef.gesture = "point"
  /\ uGesture = 5

\* C15: the tension computed for every landmark set, those whose wrist and
\* middle-finger base coincide included, is a number from 0 to 1.
C15_TensionInUnitInterval ==
  Classified => (handData.tension >= 0 /\ handData.tension <= Unit)

\* v is (a + b) / 2 at the resolution of the model.
IsHalfOf(v, a, b) == v * 2 - (a + b) \in {-1, 0, 1}

IsMidpoint(p, a, b) ==
  /\ IsHalfOf(p.x, a.x, b.x)
  /\ IsHalfOf(p.y, a.y, b.y)
  /\ IsHalfOf(p.z, a.z, b.z)

\* C16: the anchors handed on with a classified frame are the index
\* fingertip alone for point, the componentwise average of the thumb tip and
\* the index fingertip alone for pinch, the index and the middle fingertip
\* for peace, and none at all for none, palm_up and palm_down.
C16_AnchorsOfGesture ==
  Classified
  => /\ handData.fingerTip =
          IF handData.gesture = "point" THEN <<Landmark(8)>> ELSE <<>>
     /\ IF handData.gesture = "pinch"
        THEN /\ Len(handData.pinchPosition) = 1
             /\ IsMidpoint(handData.pinchPosition[1], Landmark(4), Landmark(8))
        ELSE handData.pinchPosition = <<>>
     /\ handData.peaceOrbit1 =
          IF handData.gesture = "peace" THEN <<Landmark(8)>> ELSE <<>>
     /\ handData.peaceOrbit2 =
          IF handData.gesture = "peace" THEN <<Landmark(12)>> ELSE <<>>

\* C16 witness: a pinch whose anchor lies strictly between two distinct
\* fingertips.
C16_PinchBetweenTips ==
  /\ Classified
  /\ handData.gesture = "pinch"
  /\ Landmark(4) # Landmark(8)
  /\ handData.pinchPosition # <<Landmark(4)>>
  /\ handData.pinchPosition # <<Landmark(8)>>

\* C17: a render frame sets each anchor uniform whose camera-space anchor
\* (x, y, z) is present to ((x - 0.5) * 4, (0.5 - y) * 4, z), the depth
\* unchanged, the same for the point or pinch anchor and the two peace
\* anchors; the image centre (0.5, 0.5, z) goes to (0, 0, z).
C17_CameraToWorld ==
  [][IsRenderFrame
     => /\ \A p \in {handDataRef.fingerTip, handDataRef.pinchPosition} :
             Len(p) = 1
             => /\ uGesturePos'.x = 4 * p[1].x - 2 * Unit
                /\ uGesturePos'.y = 2 * Unit - 4 * p[1].y
                /\ uGesturePos'.z = p[1].z
                /\ (p[1].x = Unit \div 2 /\ p[1].y = Unit \div 2)
                     => uGesturePos' = Point(0, 0, p[1].z)
        /\ Len(handDataRef.peaceOrbit1) = 1
             => uPeacePos1' = Point(4 * handDataRef.peaceOrbit1[1].x - 2 * Unit,
                                    2 * Unit - 4 * handDataRef.peaceOrbit1[1].y,
                                    handDataRef.peaceOrbit1[1].z)
        /\ Len(handDataRef.peaceOrbit2) = 1
             => uPeacePos2' = Point(4 * handDataRef.peaceOrbit2[1].x - 2 * Unit,
                                    2 * Unit - 4 * handDataRef.peaceOrbit2[1].y,
                                    handDataRef.peaceOrbit2[1].z)]_vars

\* C17 witness: the fingertip at the image centre, at a depth other than
\* 0, published at the world origin with that depth.
C17_CentreToOrigin ==
  /\ uTime > 0
  /\ handDataRef.fingerTip = <<Point(Unit \div 2, Unit \div 2, -300)>>
  /\ uGesturePos = Point(0, 0, -300)

\* Base placement and jitter of vertex p under the published tension:
\* targetPos * (uTension * 1.8 + 0.3 + breath) + noise * 0.05.
PlacementAndJitter(p) ==
  LET effectiveTime == uTime * FrameTime - p.trailIdx * 800
      breath == FMul(sin(FMul(effectiveTime, 6, 10)), 2, 100)
      noise == FMul(hash(p.targetPos.x + p.targetPos.y * 2
                         + FMul(effectiveTime, 1, 10)), 4, 100)
      scale == FMul(uTension, 18, 10) + 3000 + breath
      jitter == FMul(noise, 5, 100)
  IN  Point(FMul(p.targetPos.x, scale, Unit) + jitter,
            FMul(p.targetPos.y, scale, Unit) + jitter,
            FMul(p.targetPos.z, scale, Unit) + jitter)

\* Values an anchor uniform may hold.
AnchorValues ==
  {ZeroVector, uGesturePos, uPeacePos1, uPeacePos2, Point(3613, 4815, 8),
   Point(-20000, 20000, -300)}

C19_SixGesturesSixIds ==
  /\ [](/\ handDataRef.gesture \in
            {"none", "point", "pinch", "palm_up", "palm_down", "peace"}
        /\ uGesture \in 0..5
        /\ uTime = 0 => uGesture = 0)
  /\ [][IsRenderFrame
        => <<handDataRef.gesture, uGesture'>> \in
             {<<"none", 0>>, <<"point", 1>>, <<"pinch", 2>>, <<"palm_up", 3>>,
              <<"palm_down", 4>>, <<"peace", 5>>}]_vars

\* C19 witness: a render frame before any detection, while App's handData
\* still has no gesture field, and 0 published.
C19_RenderedBeforeDetection ==
  /\ uTime > 0
  /\ lastVideoTimeRef = -1
  /\ handData.gesture = "undefined"
  /\ handDataRef.gesture = "none"
  /\ uGesture = 0

\* C20: a detected-hand update adds to Smoothed Tension the fraction 0.12
\* of its difference to 1 - tension when the tension differs from the
\* previous tension by more than 0.1, and the fraction 0.08 otherwise
\* (rounded toward zero); the new value lies between the old one and
\* 1 - tension.
C20_SmoothingStep ==
  [][(IsHandUpdate /\ handData.isDetected)
     => LET target == Unit - handData.tension
            difference == target - smoothedTensionRef
            rate == IF TensionJump(1000) THEN 12 ELSE 8
            step == smoothedTensionRef' - smoothedTensionRef
        IN  /\ IF difference >= 0
               THEN step * 100 <= difference * rate
                    /\ difference * rate < (step + 1) * 100
               ELSE step * 100 >= difference * rate
                    /\ difference * rate > (step - 1) * 100
            /\ \/ smoothedTensionRef <= smoothedTensionRef'
                  /\ smoothedTensionRef' <= target
               \/ smoothedTensionRef >= smoothedTensionRef'
                  /\ smoothedTensionRef' >= target]_vars

\* C20 witness: two updates with the tension of the fist, the first at the
\* rate 0.12 (0 -> 0.0044), the second at the rate 0.08 (-> 0.0069).
C20_TwoStepsSameTension ==
  /\ ~effectPending
  /\ rawHistory = <<"none", "none">>
  /\ handDataRef.tension = 9632
  /\ prevTensionRef = 9632
  /\ smoothedTensionRef = 69

\* The position vertex p is displayed at under the uniform values u.
Displayed(u, p) == CHOOSE pos \in vertexShader(u, p.targetPos, p.trailIdx) : TRUE

\* Its distance to the anchor in uGesturePos.
AnchorDistance(u, p) == length(VSub(u.uGesturePos, Displayed(u, p)))

C23_ReleaseBursts ==
  [][(/\ IsHandUpdate
      /\ handData.isDetected
      /\ handDataRef.gesture = "pinch"
      /\ handData.gesture # "pinch")
     => explosionRef' > 0]_vars

\* The rules whose condition holds for the frame classified last.
RulesHolding ==
  {rule \in {"peace", "point", "pinch", "palm"} :
     CASE rule = "peace" -> peaceCondition(detections[1], handData.tension)
       [] rule = "point" -> pointCondition(detections[1], handData.tension)
       [] rule = "pinch" -> pinchCondition(detections[1], handData.tension)
       [] rule = "palm" -> palmCondition(detections[1], handData.tension)}

\* C24: of the four rule conditions at most one holds for a frame, except
\* that point and pinch may hold together.
C24_OnlyPointAndPinchOverlap ==
  Classified
  => (Cardinality(RulesHolding) <= 1 \/ RulesHolding = {"point", "pinch"})

\* C24 witness: a frame for which the point and the pinch condition hold.
C24_PointAndPinchHold == Classified /\ RulesHolding = {"point", "pinch"}

\* C25: a render frame leaves uExplosion equal to Explosion Energy as that
\* frame's decay step left it, and uExplosion is never above
\* 2.0 * 0.85 = 1.7, so never the trigger value 2.0.
C25_PublishedAfterDecay ==
  /\ [][IsRenderFrame => uExplosion' = explosionRef']_vars
  /\ [](uExplosion >= 0 /\ uExplosion <= 17000 /\ uExplosion # 20000)

\* C25 witness: a trigger published for the first time, as 1.7.
C25_FirstPublishedDecayed ==
  /\ uTime > 0
  /\ explosionRef = 17000
  /\ uExplosion = 17000

\* C26: the recorded previous tension is 0 until the first detected-hand
\* update, becomes the tension of each detected-hand update, and changes in
\* no other step, updates without a hand included; so the first detected
\* update with a tension above 0.3 triggers an explosion, and a detected
\* update is compared against the tension of the detected update before it,
\* whatever updates without a hand came in between.
C26_PreviousTension ==
  /\ [](~handDataRef.isDetected => prevTensionRef = 0)
  /\ [](handDataRef.isDetected => prevTensionRef = handDataRef.tension)
  /\ [][IF IsHandUpdate /\ handData.isDetected
        THEN /\ prevTensionRef' = handData.tension
             /\ ((handData.tension - prevTensionRef > 3000
                  \/ prevTensionRef - handData.tension > 3000)
                    => explosionRef' = 20000)
        ELSE prevTensionRef' = prevTensionRef]_vars

\* C26 witness: a fist's update has recorded its tension, the hand is then
\* lost, and the update without a hand has run and left the record alone.
C26_KeptAcrossLoss ==
  /\ handDataRef.isDetected
  /\ handDataRef.tension = 9632
  /\ detections = NoHand
  /\ ~handData.isDetected
  /\ ~effectPending
  /\ prevTensionRef = 9632

\* The hand data `hand` is what one landmark frame alone gives: its gesture,
\* and the anchors of that gesture taken from that frame's fingertips.
FromOneFrame(hand, landmarks) ==
  /\ hand.gesture =
       CASE landmarks = FistHand -> "none"
         [] landmarks = PinchHand -> "pinch"
         [] landmarks = PointHand -> "point"
         [] landmarks = PeaceHand -> "peace"
         [] landmarks = PalmUpHand -> "palm_up"
         [] landmarks = PalmDownHand -> "palm_down"
  /\ hand.fingerTip \in {<<>>, <<landmarks[9]>>}
  /\ \/ hand.pinchPosition = <<>>
     \/ /\ Len(hand.pinchPosition) = 1
        /\ IsMidpoint(hand.pinchPosition[1], landmarks[5], landmarks[9])
  /\ hand.peaceOrbit1 \in {<<>>, <<landmarks[9]>>}
  /\ hand.peaceOrbit2 \in {<<>>, <<landmarks[13]>>}

\* C27: in every reachable state the hand data the render loop reads holds
\* the fingertip anchor exactly for the gesture point, the pinch anchor
\* exactly for pinch, both peace anchors exactly for peace and no anchor for
\* none, palm_up and palm_down; and its gesture and anchors are those of one
\* and the same landmark frame.
C27_RefInternallyConsistent ==
  /\ IsPresent(handDataRef.fingerTip) <=> handDataRef.gesture = "point"
  /\ IsPresent(handDataRef.pinchPosition) <=> handDataRef.gesture = "pinch"
  /\ IsPresent(handDataRef.peaceOrbit1) <=> handDataRef.gesture = "peace"
  /\ IsPresent(handDataRef.peaceOrbit2) <=> handDataRef.gesture = "peace"
  /\ handDataRef.isDetected
     => \E result \in WellFormedResults \ {NoHand} :
          FromOneFrame(handDataRef, result[1])
  /\ ~handDataRef.isDetected => handDataRef.gesture = "none"

\* C27 witness: the render loop has read a peace frame with both its anchors
\* after a point frame, while a pinch frame is already delivered.
C27_PeaceAfterPoint ==
  /\ rawHistory = <<"point", "peace", "pinch">>
  /\ effectPending
  /\ handDataRef.gesture = "peace"
  /\ handDataRef.peaceOrbit1 = <<PeaceHand[9]>>
  /\ handDataRef.peaceOrbit2 = <<PeaceHand[13]>>
  /\ uGesture = 5
  /\ handData.gesture = "pinch"

====
